---- MODULE Spec2Model ----
(***************************************************************************)
(* Model of financepy/products/bonds/FinBondMortgage.py: the mortgage      *)
(* object (FinBondMortgage), its level payment (repaymentAmount) and its   *)
(* amortisation table (generateFlows).                                     *)
(*                                                                         *)
(* Python floats are IEEE-754 binary64 numbers.  They are modelled bit for *)
(* bit: a float is a record [sign, man, exp] of value                      *)
(* (-1)^sign * man * 2^exp whose mantissa man is either zero or has        *)
(* exactly Prec = 53 significant bits, and every arithmetic operation is   *)
(* the exact result rounded to nearest, ties to even.  Mantissas do not    *)
(* fit the model checker's integers, so a natural number is a sequence of  *)
(* limbs in base 2^15, least significant limb first, without leading zero  *)
(* limbs (the empty sequence is zero).  Exponent overflow and subnormal    *)
(* numbers are outside the ranges the model's inputs reach.                *)
(*                                                                         *)
(* x ** n is the pow of the C library, which is accurate to less than one  *)
(* unit in the last place but not correctly rounded: when the exact power  *)
(* is not a float, the library returns the float below it or the float     *)
(* above it, and which one depends on the library.  The library is         *)
(* therefore part of the state: libm records, for every power the loan can *)
(* ask for, the result this build returns, and every library that is       *)
(* accurate to less than one unit in the last place is an initial state.   *)
(***************************************************************************)
EXTENDS Integers, Sequences, FiniteSets

(***************************************************************************)
(* Natural numbers of arbitrary size.                                      *)
(***************************************************************************)
LimbBits == 15

Base == 2 ^ LimbBits

\* Drop the leading (most significant) zero limbs.
BNorm(a) ==
  SubSeq(a, 1, Cardinality({i \in 1..Len(a) : \E j \in i..Len(a) : a[j] # 0}))

RECURSIVE BFromNat(_)
BFromNat(n) ==
  IF n = 0 THEN <<>> ELSE <<n % Base>> \o BFromNat(n \div Base)

BLimb(a, i) == IF i <= Len(a) THEN a[i] ELSE 0

\* The value of a natural number of at most two limbs
BToNat(a) == BLimb(a, 1) + BLimb(a, 2) * Base

\* Limb i of s receives a carry: some lower limb overflows and every limb
\* between is full.
BCarry(s, i) ==
  \E j \in 1..(i - 1) :
    /\ s[j] >= Base
    /\ \A k \in (j + 1)..(i - 1) : s[k] = Base - 1

\* The number whose limbs, before carries, are the s[i] < 2 * Base
BCarried(s) ==
  BNorm([i \in 1..Len(s) |-> (s[i] + IF BCarry(s, i) THEN 1 ELSE 0) % Base])

BAdd(a, b) ==
  BCarried([i \in 1..((IF Len(a) >= Len(b) THEN Len(a) ELSE Len(b)) + 1) |->
              BLimb(a, i) + BLimb(b, i)])

\* Limb i of a lends to a lower limb in a - b: some lower limb of a is too
\* small and every limb between is equal.
BBorrow(a, b, i) ==
  \E j \in 1..(i - 1) :
    /\ a[j] < BLimb(b, j)
    /\ \A k \in (j + 1)..(i - 1) : a[k] = BLimb(b, k)

\* a - b for a >= b
BSub(a, b) ==
  BNorm([i \in 1..Len(a) |->
           (a[i] - BLimb(b, i) - (IF BBorrow(a, b, i) THEN 1 ELSE 0) + Base)
           % Base])

\* The highest limb in which a and b of equal length differ, 0 if none
BTopDiff(a, b) ==
  Cardinality({i \in 1..Len(a) : \E j \in i..Len(a) : a[j] # b[j]})

BCmpAt(a, b, top) ==
  IF top = 0 THEN 0 ELSE IF a[top] < b[top] THEN -1 ELSE 1

\* -1, 0, 1 as a < b, a = b, a > b
BCmp(a, b) ==
  IF Len(a) < Len(b) THEN -1
  ELSE IF Len(a) > Len(b) THEN 1
  ELSE BCmpAt(a, b, BTopDiff(a, b))

BShiftLimbs(a, n) == IF a = <<>> THEN <<>> ELSE [i \in 1..n |-> 0] \o a

\* a * k for a limb k
BMulSmall(a, k) ==
  BAdd([i \in 1..Len(a) |-> (a[i] * k) % Base],
       BShiftLimbs(BNorm([i \in 1..Len(a) |-> (a[i] * k) \div Base]), 1))

\* Sum over i in lo..hi of the low (part = 0) or high (part = 1) limb of
\* a[i] * b[k - i]
RECURSIVE BMulColumn(_, _, _, _, _, _)
BMulColumn(a, b, k, lo, hi, part) ==
  IF lo > hi THEN 0
  ELSE (IF part = 0 THEN (a[lo] * b[k - lo]) % Base
        ELSE (a[lo] * b[k - lo]) \div Base)
       + BMulColumn(a, b, k, lo + 1, hi, part)

\* The column of the products a[i] * b[j] with i + j = n
BMulPart(a, b, n, part) ==
  BMulColumn(a, b, n, IF n - Len(b) > 1 THEN n - Len(b) ELSE 1,
             IF n - 1 < Len(a) THEN n - 1 ELSE Len(a), part)

\* The number whose limbs, before carries, are the cols[k]
BMulCarried(cols) ==
  BAdd([k \in 1..Len(cols) |-> cols[k] % Base],
       BShiftLimbs(BNorm([k \in 1..Len(cols) |-> cols[k] \div Base]), 1))

\* a * b: limb k collects the low limbs of the products a[i] * b[j] with
\* i + j = k + 1 and the high limbs of those with i + j = k
BMul(a, b) ==
  IF a = <<>> \/ b = <<>> THEN <<>>
  ELSE BMulCarried([k \in 1..(Len(a) + Len(b)) |->
                      BMulPart(a, b, k + 1, 0) + BMulPart(a, b, k, 1)])

RECURSIVE BPow(_, _)
BPow(a, n) == IF n = 0 THEN <<1>> ELSE BMul(BPow(a, n - 1), a)

\* a * 2^k for k < LimbBits
BShlBits(a, k) ==
  BNorm([i \in 1..(Len(a) + 1) |->
           (BLimb(a, i) % (2 ^ (LimbBits - k))) * (2 ^ k)
           + (IF i = 1 THEN 0 ELSE a[i - 1] \div (2 ^ (LimbBits - k)))])

\* a * 2^n
BShl(a, n) == BShiftLimbs(BShlBits(a, n % LimbBits), n \div LimbBits)

\* a \div 2^k for k < LimbBits, after dropping the d lowest limbs
BShrBits(a, d, k) ==
  IF d >= Len(a) THEN <<>>
  ELSE BNorm([i \in 1..(Len(a) - d) |->
                (a[i + d] \div (2 ^ k))
                + (BLimb(a, i + d + 1) % (2 ^ k)) * (2 ^ (LimbBits - k))])

\* a \div 2^n
BShr(a, n) == BShrBits(a, n \div LimbBits, n % LimbBits)

RECURSIVE BitLenNat(_)
BitLenNat(n) == IF n = 0 THEN 0 ELSE 1 + BitLenNat(n \div 2)

BBitLen(a) ==
  IF a = <<>> THEN 0 ELSE LimbBits * (Len(a) - 1) + BitLenNat(a[Len(a)])

BIsOdd(a) == a # <<>> /\ a[1] % 2 = 1

\* Bit i of a (bit 0 is the least significant)
BBit(a, i) == (BLimb(a, (i \div LimbBits) + 1) \div (2 ^ (i % LimbBits))) % 2

\* Some bit of a below bit i is set
BLowBits(a, i) ==
  \/ \E j \in 1..(i \div LimbBits) : BLimb(a, j) # 0
  \/ BLimb(a, (i \div LimbBits) + 1) % (2 ^ (i % LimbBits)) # 0

BLowZeroLimbs(a) == Cardinality({i \in 1..Len(a) : \A j \in 1..i : a[j] = 0})

\* Short division [q, r] of a by a limb k > 0, from the limb i down; r is
\* the remainder carried from the limbs above and q their quotient limbs.
RECURSIVE BDivSmallFrom(_, _, _, _, _)
BDivSmallFrom(a, k, i, r, q) ==
  IF i = 0 THEN [q |-> q, r |-> r]
  ELSE BDivSmallFrom(a, k, i - 1, (r * Base + a[i]) % k,
                     <<(r * Base + a[i]) \div k>> \o q)

DigitBits == LimbBits - 1

\* The digit est of r2 / d and its remainder r3, corrected: est never
\* overshoots and falls short by at most one.
BDivCorrect(r3, d, est) ==
  IF BCmp(r3, d) >= 0 THEN [q |-> est + 1, r |-> BSub(r3, d)]
  ELSE [q |-> est, r |-> r3]

\* The quotient digit of r2 / d, estimated from the bits above bit t
BDivEstimate(r2, d, t) ==
  BToNat(BShr(r2, t)) \div (BToNat(BShr(d, t)) + 1)

BDivStep(r2, d, est) == BDivCorrect(BSub(r2, BMulSmall(d, est)), d, est)

\* The next DigitBits quotient bits of r / d, as [q, r], for 0 <= r < d and
\* d of more than LimbBits + 1 bits
BDivDigit(r, d) ==
  BDivStep(BShl(r, DigitBits), d,
           BDivEstimate(BShl(r, DigitBits), d, BBitLen(d) - (LimbBits + 1)))

\* The quotient q followed by a sticky bit that is 1 when r is not zero
BSticky(q, r) == BAdd(BAdd(q, q), IF r = <<>> THEN <<>> ELSE <<1>>)

\* n further quotient digits of r / d appended to q, then the sticky bit
RECURSIVE BDivDigits(_, _, _, _)
BDivNext(d, q, n, dg) ==
  IF Len(dg.r) >= 0
  THEN BDivDigits(dg.r, d, BAdd(BShl(q, DigitBits), BFromNat(dg.q)), n - 1)
  ELSE <<>>

BDivDigits(r, d, q, n) ==
  IF n = 0 THEN BSticky(q, r)
  ELSE IF Len(q) >= 0 THEN BDivNext(d, q, n, BDivDigit(r, d))
  ELSE <<>>

(***************************************************************************)
(* IEEE-754 binary64 numbers.                                              *)
(***************************************************************************)
Prec == 53

FZero(s) == [sign |-> s, man |-> <<>>, exp |-> 0]

FIsZero(x) == x.man = <<>>

\* The mantissa q of exponent e, renormalised if rounding up carried out
FCarryOut(s, q, e) ==
  IF BBitLen(q) > Prec
  THEN [sign |-> s, man |-> BShr(q, 1), exp |-> e + 1]
  ELSE [sign |-> s, man |-> q, exp |-> e]

\* m of more than Prec bits, cut by sh bits to q and rounded to nearest,
\* ties to even
FRoundCut(s, m, e, sh, q) ==
  FCarryOut(s,
            IF BBit(m, sh - 1) = 1 /\ (BLowBits(m, sh - 1) \/ BIsOdd(q))
            THEN BAdd(q, <<1>>) ELSE q,
            e + sh)

FRoundLen(s, m, e, len) ==
  IF len <= Prec
  THEN [sign |-> s, man |-> BShl(m, Prec - len), exp |-> e - (Prec - len)]
  ELSE FRoundCut(s, m, e, len - Prec, BShr(m, len - Prec))

\* The float nearest to (-1)^s * m * 2^e, ties to even.
FRound(s, m, e) ==
  IF m = <<>> THEN FZero(s) ELSE FRoundLen(s, m, e, BBitLen(m))

\* int -> float, exact: no int of the model has more than Prec bits
FromInt(n) ==
  IF n = 0 THEN FZero(0)
  ELSE IF n < 0
  THEN [sign |-> 1, man |-> BShl(BFromNat(-n), Prec - BitLenNat(-n)),
        exp |-> BitLenNat(-n) - Prec]
  ELSE [sign |-> 0, man |-> BShl(BFromNat(n), Prec - BitLenNat(n)),
        exp |-> BitLenNat(n) - Prec]

FNeg(x) == [x EXCEPT !.sign = 1 - x.sign]

\* (-1)^sx * mx + (-1)^sy * my, times 2^e
DAddAligned(sx, mx, sy, my, e, c) ==
  IF sx = sy THEN [sign |-> sx, man |-> BAdd(mx, my), exp |-> e]
  ELSE IF c = 0 THEN FZero(0)
  ELSE IF c = 1 THEN [sign |-> sx, man |-> BSub(mx, my), exp |-> e]
  ELSE [sign |-> sy, man |-> BSub(my, mx), exp |-> e]

DAddAt(x, y, e) ==
  DAddAligned(x.sign, BShl(x.man, x.exp - e), y.sign, BShl(y.man, y.exp - e),
              e, BCmp(BShl(x.man, x.exp - e), BShl(y.man, y.exp - e)))

\* x + y exactly, as an unrounded (-1)^sign * man * 2^exp
DAdd(x, y) == DAddAt(x, y, IF x.exp <= y.exp THEN x.exp ELSE y.exp)

DAbsLeqAt(x, y, e) ==
  BCmp(BShl(x.man, x.exp - e), BShl(y.man, y.exp - e)) <= 0

\* |x| <= |y| exactly
DAbsLeq(x, y) == DAbsLeqAt(x, y, IF x.exp <= y.exp THEN x.exp ELSE y.exp)

FRoundD(d) == FRound(d.sign, d.man, d.exp)

FAdd(x, y) ==
  IF FIsZero(x) /\ FIsZero(y)
  THEN FZero(IF x.sign = 1 /\ y.sign = 1 THEN 1 ELSE 0)
  ELSE IF FIsZero(x) THEN y
  ELSE IF FIsZero(y) THEN x
  ELSE FRoundD(DAdd(x, y))

FSub(x, y) == FAdd(x, FNeg(y))

FMul(x, y) ==
  IF FIsZero(x) \/ FIsZero(y) THEN FZero((x.sign + y.sign) % 2)
  ELSE FRound((x.sign + y.sign) % 2, BMul(x.man, y.man), x.exp + y.exp)

GuardDigits == 4

\* x / y for a divisor mantissa of one significant limb k above z zero
\* limbs: short division of the mantissa of x extended by two limbs
FDivShort(x, y, z, qr) ==
  FRound((x.sign + y.sign) % 2, BSticky(BNorm(qr.q), BFromNat(qr.r)),
         x.exp - y.exp - LimbBits * (z + 2) - 1)

\* x / y by long division: the leading quotient bit, then GuardDigits
\* digits and the sticky bit
FDivLong(x, y, ge) ==
  FRound((x.sign + y.sign) % 2,
         BDivDigits(IF ge THEN BSub(x.man, y.man) ELSE x.man, y.man,
                    IF ge THEN <<1>> ELSE <<>>, GuardDigits),
         x.exp - y.exp - DigitBits * GuardDigits - 1)

FDivBy(x, y, z) ==
  IF z = Len(y.man) - 1
  THEN FDivShort(x, y, z,
                 BDivSmallFrom(BShiftLimbs(x.man, 2), y.man[z + 1],
                               Len(x.man) + 2, 0, <<>>))
  ELSE FDivLong(x, y, BCmp(x.man, y.man) >= 0)

\* x / y for y # 0 (Python raises ZeroDivisionError when y = 0)
FDiv(x, y) ==
  IF FIsZero(x) THEN FZero((x.sign + y.sign) % 2)
  ELSE FDivBy(x, y, BLowZeroLimbs(y.man))

\* (-1)^s * m * 2^e for m of more than Prec bits: the float below it in
\* magnitude and the float above, or the value itself when it is a float
FNeighbours(s, m, e, sh) ==
  IF ~BLowBits(m, sh)
  THEN {[sign |-> s, man |-> BShr(m, sh), exp |-> e + sh]}
  ELSE {[sign |-> s, man |-> BShr(m, sh), exp |-> e + sh],
        FCarryOut(s, BAdd(BShr(m, sh), <<1>>), e + sh)}

FPowExact(s, m, e) ==
  IF BBitLen(m) <= Prec THEN {FRound(s, m, e)}
  ELSE FNeighbours(s, m, e, BBitLen(m) - Prec)

\* The results x ** n can have for an integer n >= 0: 1.0 when n is 0, a
\* zero of the sign of the power when x is zero, the exact power when it is
\* a float, and otherwise either of the two floats around the exact power
FPowOutcomes(x, n) ==
  IF n = 0 THEN {FromInt(1)}
  ELSE IF FIsZero(x) THEN {FZero(IF n % 2 = 0 THEN 0 ELSE x.sign)}
  ELSE FPowExact(IF n % 2 = 0 THEN 0 ELSE x.sign, BPow(x.man, n), x.exp * n)

\* The pow of the C library the interpreter is linked with, as the table
\* of its results on the arguments the loan passes to it
VARIABLE libm

\* x ** n for an integer n >= 0
FPow(x, n) == libm[<<x, n>>]

\* Python's == on numbers: the two zeros are equal
FEq(x, y) == (FIsZero(x) /\ FIsZero(y)) \/ x = y

DIsNegative(d) == d.man # <<>> /\ d.sign = 1

\* Python's < on numbers
FLess(x, y) == DIsNegative(DAdd(x, FNeg(y)))

(***************************************************************************)
(* Collaborators of the mortgage: payment frequency and schedule.          *)
(***************************************************************************)
FinFrequencyTypes == {"ANNUAL", "SEMI_ANNUAL", "QUARTERLY", "MONTHLY"}

\* Payments per year
FinFrequency(frequencyType) ==
  CASE frequencyType = "ANNUAL" -> 1
    [] frequencyType = "SEMI_ANNUAL" -> 2
    [] frequencyType = "QUARTERLY" -> 4
    [] frequencyType = "MONTHLY" -> 12

MonthsPerYear == 12

\* The ordered payment dates of a loan: the start boundary, then the dates
\* reached by stepping back one period at a time from the end date while
\* they fall after the start.  Dates are counted in months.
FinSchedule(startDate, endDate, frequencyType) ==
  LET step  == MonthsPerYear \div FinFrequency(frequencyType)
      count == Cardinality({k \in 0..(endDate - startDate) :
                              endDate - k * step > startDate})
  IN  <<startDate>> \o [i \in 1..count |-> endDate - (count - i) * step]

(***************************************************************************)
(* FinBondMortgage                                                         *)
(***************************************************************************)
REPAYMENT == "REPAYMENT"

INTEREST_ONLY == "INTEREST_ONLY"

FinBondMortgageType == {REPAYMENT, INTEREST_ONLY}

\* The object __init__ leaves behind.  The flow attributes do not exist
\* until generateFlows creates them: mortgageType "unset", empty lists.
FinBondMortgage(startDate, endDate, principal, frequencyType) ==
  [startDate              |-> startDate,
   endDate                |-> endDate,
   principal              |-> principal,
   frequencyType          |-> frequencyType,
   calendarType           |-> "WEEKEND",
   busDayAdjustType       |-> "FOLLOWING",
   dateGenRuleType        |-> "BACKWARD",
   dayCountConventionType |-> "ACT_360",
   schedule               |-> FinSchedule(startDate, endDate, frequencyType),
   mortgageType           |-> "unset",
   interestFlows          |-> <<>>,
   principalFlows         |-> <<>>,
   principalRemaining     |-> <<>>,
   totalFlows             |-> <<>>]

\* frequency = FinFrequency(self._frequencyType), as the float it becomes
\* in the arithmetic
frequencyOf(self) == FromInt(FinFrequency(self.frequencyType))

\* m = zeroRate * p / (p - 1.0) / frequency; m = m * self._principal, where
\* d is p - 1.0: the division raises when d is zero
paymentFor(self, zeroRate, p, d) ==
  IF FIsZero(d)
  THEN [raised |-> "ZeroDivisionError", value |-> <<>>]
  ELSE [raised |-> "none",
        value  |-> <<FMul(FDiv(FDiv(FMul(zeroRate, p), d), frequencyOf(self)),
                          FromInt(self.principal))>>]

paymentAt(self, zeroRate, p) ==
  paymentFor(self, zeroRate, p, FSub(p, FromInt(1)))

\* repaymentAmount: the value returned, or the exception raised by the
\* division by p - 1.0 when p is 1.0
repaymentAmount(self, zeroRate) ==
  paymentAt(self, zeroRate,
            FPow(FAdd(FromInt(1), FDiv(zeroRate, frequencyOf(self))),
                 Len(self.schedule) - 1))

\* appendFlows with a slip: the total appended is recomputed as
\* interestFlow + principalFlow instead of being the payment.
appendFlows_sum(self, interestFlow, principalFlow, principal, monthlyFlow) ==
  [self EXCEPT
     !.interestFlows      = Append(@, interestFlow),
     !.principalFlows     = Append(@, principalFlow),
     !.principalRemaining = Append(@, principal),
     !.totalFlows         = Append(@, FAdd(interestFlow, principalFlow))]

\* The four appends at the end of a pass of the loop
appendFlows(self, interestFlow, principalFlow, principal, monthlyFlow) ==
  [self EXCEPT
     !.interestFlows      = Append(@, interestFlow),
     !.principalFlows     = Append(@, principalFlow),
     !.principalRemaining = Append(@, principal),
     !.totalFlows         = Append(@, monthlyFlow)]

\* principal = principal - principalFlow, then the appends
reducePrincipal(self, principal, monthlyFlow, interestFlow, principalFlow) ==
  appendFlows(self, interestFlow, principalFlow,
              FSub(principal, principalFlow), monthlyFlow)

\* principalFlow = monthlyFlow - interestFlow, and the rest of the pass
splitPayment(self, principal, monthlyFlow, interestFlow) ==
  reducePrincipal(self, principal, monthlyFlow, interestFlow,
                  FSub(monthlyFlow, interestFlow))

\* One pass of the loop body of generateFlows; principal is the running
\* outstanding principal.
flowStep(self, principal, monthlyFlow, zeroRate) ==
  splitPayment(self, principal, monthlyFlow,
               FDiv(FMul(principal, zeroRate), frequencyOf(self)))

\* flowLoop with a slip: range(1, numFlows + 1), one pass too many.
RECURSIVE flowLoop_onePassMore(_, _, _, _)
flowLoop_onePassMore(self, i, monthlyFlow, zeroRate) ==
  IF i > Len(self.schedule) THEN self
  ELSE flowLoop_onePassMore(
         flowStep(self, self.principalRemaining[Len(self.principalRemaining)],
                  monthlyFlow, zeroRate),
         i + 1, monthlyFlow, zeroRate)

\* for i in range(1, numFlows): the running principal is the entry the
\* previous pass appended to principalRemaining.
RECURSIVE flowLoop(_, _, _, _)
flowLoop(self, i, monthlyFlow, zeroRate) ==
  IF i >= Len(self.schedule) THEN self
  ELSE flowLoop(flowStep(self,
                         self.principalRemaining[Len(self.principalRemaining)],
                         monthlyFlow, zeroRate),
                i + 1, monthlyFlow, zeroRate)

\* seedFlows with a slip: lists that exist already are kept, so that a
\* second call appends to the rows of the first.
seedFlows_keepRows(self, mortgageType) ==
  IF self.totalFlows = <<>>
  THEN [self EXCEPT !.mortgageType       = mortgageType,
                    !.interestFlows      = <<FromInt(0)>>,
                    !.principalFlows     = <<FromInt(0)>>,
                    !.principalRemaining = <<FromInt(self.principal)>>,
                    !.totalFlows         = <<FromInt(0)>>]
  ELSE [self EXCEPT !.mortgageType = mortgageType]

\* The attributes generateFlows assigns before anything can fail
seedFlows(self, mortgageType) ==
  [self EXCEPT !.mortgageType       = mortgageType,
               !.interestFlows      = <<FromInt(0)>>,
               !.principalFlows     = <<FromInt(0)>>,
               !.principalRemaining = <<FromInt(self.principal)>>,
               !.totalFlows         = <<FromInt(0)>>]

\* The REPAYMENT branch: monthlyFlow = self.repaymentAmount(zeroRate),
\* whose exception ends the call, then the loop
repaymentFlows(seeded, zeroRate, repay) ==
  IF repay.raised # "none"
  THEN [self |-> seeded, raised |-> repay.raised]
  ELSE [self   |-> flowLoop(seeded, 1, repay.value[1], zeroRate),
        raised |-> "none"]

\* interestOnlyFlows with a slip: the payment is not divided by the
\* frequency.
interestOnlyFlows_annualInterest(seeded, zeroRate) ==
  [self   |-> flowLoop(seeded, 1, FMul(zeroRate, FromInt(seeded.principal)),
                       zeroRate),
   raised |-> "none"]

\* The INTEREST_ONLY branch: monthlyFlow = zeroRate * self._principal /
\* frequency, then the loop
interestOnlyFlows(seeded, zeroRate) ==
  [self   |-> flowLoop(seeded, 1,
                       FDiv(FMul(zeroRate, FromInt(seeded.principal)),
                            frequencyOf(seeded)),
                       zeroRate),
   raised |-> "none"]

\* generateFlows after its first five assignments
flowsFrom(seeded, zeroRate, mortgageType) ==
  IF mortgageType = REPAYMENT
  THEN repaymentFlows(seeded, zeroRate, repaymentAmount(seeded, zeroRate))
  ELSE IF mortgageType = INTEREST_ONLY
  THEN interestOnlyFlows(seeded, zeroRate)
  ELSE [self |-> seeded, raised |-> "FinError"]

\* generateFlows: the object after the call and the exception it raised
generateFlows(self, zeroRate, mortgageType) ==
  flowsFrom(seedFlows(self, mortgageType), zeroRate, mortgageType)

(***************************************************************************)
(* Inputs of the model.                                                    *)
(***************************************************************************)
MaxEndDate == 3

StartDates == {0, 1}

EndDates == 0..MaxEndDate

Principals == {-1000, 0, 300000}

Frequencies == {"ANNUAL", "MONTHLY"}

\* The float a decimal literal n e-k denotes (10^k is exact for k <= 22)
Decimal(n, k) == FDiv(FromInt(n), FRound(0, BPow(<<10>>, k), 0))

ZeroRates ==
  {FromInt(-9), FromInt(0), Decimal(1, 1), Decimal(1, 12), Decimal(1, 17)}

MortgageTypes == FinBondMortgageType \cup {"OTHER"}

\* The arguments of the ** of repaymentAmount on a loan of the given
\* frequency and number of dates, over the zero rates of the model
PowInputs(frequencyType, numFlows) ==
  {<<FAdd(FromInt(1), FDiv(zeroRate, FromInt(FinFrequency(frequencyType)))),
     numFlows - 1>> : zeroRate \in ZeroRates}

\* The table t extended by the result v on the argument i
PowTableWith(t, i, v) ==
  [j \in DOMAIN t \cup {i} |-> IF j = i THEN v ELSE t[j]]

\* The libraries, as far as the arguments of inputs show: one table for
\* every choice of a possible result on each argument
RECURSIVE PowTables(_)
PowTablesFrom(inputs, i) ==
  {PowTableWith(t, i, v) : t \in PowTables(inputs \ {i}),
                           v \in FPowOutcomes(i[1], i[2])}

PowTables(inputs) ==
  IF inputs = {} THEN {<<>>}
  ELSE PowTablesFrom(inputs, CHOOSE i \in inputs : TRUE)

(***************************************************************************)
(* The state machine: one mortgage object, the library it runs on and the  *)
(* calls made on it.                                                       *)
(***************************************************************************)
VARIABLES self, call, ret

vars == <<self, call, ret, libm>>

\* __init__: raises ValueError when the start date is after the end date
Init ==
  \E startDate \in StartDates, endDate \in EndDates,
     principal \in Principals, frequencyType \in Frequencies :
    /\ ~(startDate > endDate)
    /\ self = FinBondMortgage(startDate, endDate, principal, frequencyType)
    /\ libm \in PowTables(PowInputs(frequencyType, Len(self.schedule)))
    /\ call = [op |-> "__init__", zeroRate |-> FromInt(0),
               mortgageType |-> "unset"]
    /\ ret = [raised |-> "none", value |-> <<>>]

GenerateFlows(zeroRate, mortgageType) ==
  \E res \in {generateFlows(self, zeroRate, mortgageType)} :
    /\ self' = res.self
    /\ call' = [op |-> "generateFlows", zeroRate |-> zeroRate,
                mortgageType |-> mortgageType]
    /\ ret' = [raised |-> res.raised, value |-> <<>>]
    /\ UNCHANGED libm

RepaymentAmount(zeroRate) ==
  /\ call' = [op |-> "repaymentAmount", zeroRate |-> zeroRate,
              mortgageType |-> "unset"]
  /\ ret' = repaymentAmount(self, zeroRate)
  /\ UNCHANGED <<self, libm>>

Next ==
  \/ \E zeroRate \in ZeroRates, mortgageType \in MortgageTypes :
       GenerateFlows(zeroRate, mortgageType)
  \/ \E zeroRate \in ZeroRates : RepaymentAmount(zeroRate)

Spec == Init /\ [][Next]_vars

(***************************************************************************)
(* Vocabulary of the properties.  Python index i is index i + 1 here.      *)
(***************************************************************************)
numPeriods == Len(self.schedule)

\* The latest call was generateFlows and it returned normally
Generated == call.op = "generateFlows" /\ ret.raised = "none"

\* The exception classes the library raises for rejected arguments
InvalidArgument == {"FinError", "ValueError"}

FlowState(obj) ==
  <<obj.mortgageType, obj.interestFlows, obj.principalFlows,
    obj.principalRemaining, obj.totalFlows>>

LoanState(obj) ==
  <<obj.startDate, obj.endDate, obj.principal, obj.frequencyType,
    obj.calendarType, obj.busDayAdjustType, obj.dateGenRuleType,
    obj.dayCountConventionType, obj.schedule>>

\* The rows generateFlows writes before its loop
SeedRows(obj) ==
  /\ obj.interestFlows = <<FromInt(0)>>
  /\ obj.principalFlows = <<FromInt(0)>>
  /\ obj.totalFlows = <<FromInt(0)>>
  /\ obj.principalRemaining = <<FromInt(obj.principal)>>

\* |x| * k <= |y|, exactly
WithinRatio(x, k, y) == DAbsLeq([x EXCEPT !.man = BMul(@, BFromNat(k))], y)

\* |x - y| * 2^n <= |ref|, exactly
WithinBits(x, y, ref, n) ==
  DAbsLeq([DAdd(x, FNeg(y)) EXCEPT !.exp = @ + n], ref)

Positive(x) == FLess(FromInt(0), x)

(***************************************************************************)
(* C1: for principal > 0, numPeriods >= 2 and zeroRate > 0,                *)
(* generateFlows(zeroRate, REPAYMENT) leaves a last principalRemaining     *)
(* that is zero to within 1e-6 of the principal.                           *)
(***************************************************************************)
C1_FullyAmortized ==
  ( /\ call.op = "generateFlows"
    /\ call.mortgageType = REPAYMENT
    /\ self.principal > 0
    /\ numPeriods >= 2
    /\ Positive(call.zeroRate) )
  => /\ ret.raised = "none"
     /\ Len(self.principalRemaining) = numPeriods
     /\ WithinRatio(self.principalRemaining[numPeriods], 10 ^ 6,
                    FromInt(self.principal))

(***************************************************************************)
(* C2: with zeroRate = 0 and numPeriods >= 2, repaymentAmount does not     *)
(* fault but returns principal / (numPeriods - 1), and                     *)
(* generateFlows(0, REPAYMENT) yields zero interest and a principal flow   *)
(* equal to the payment in every period.                                   *)
(***************************************************************************)
C2_ZeroRatePayment ==
  LET payment == FDiv(FromInt(self.principal), FromInt(numPeriods - 1))
  IN  (FIsZero(call.zeroRate) /\ numPeriods >= 2)
      => /\ call.op = "repaymentAmount"
            => ret.raised = "none" /\ ret.value = <<payment>>
         /\ (call.op = "generateFlows" /\ call.mortgageType = REPAYMENT)
            => /\ ret.raised = "none"
               /\ Len(self.principalFlows) = numPeriods
               /\ \A i \in 2..Len(self.principalFlows) :
                    /\ FIsZero(self.interestFlows[i])
                    /\ FEq(self.principalFlows[i], payment)

(***************************************************************************)
(* C3: generateFlows with a mortgage type that is neither REPAYMENT nor    *)
(* INTEREST_ONLY raises an error and leaves the flow sequences and the     *)
(* recorded mortgage type exactly as they were before the call.            *)
(***************************************************************************)
C3_UnknownTypeNoEffect ==
  [][ (call'.op = "generateFlows"
       /\ call'.mortgageType \notin FinBondMortgageType)
      => (ret'.raised \in InvalidArgument
          /\ FlowState(self') = FlowState(self)) ]_vars

(***************************************************************************)
(* C4: on a schedule of fewer than 2 dates generateFlows fails with a      *)
(* validation error for either mortgage type and creates or overwrites no  *)
(* flow sequence.                                                          *)
(***************************************************************************)
C4_ShortScheduleRejected ==
  [][ (call'.op = "generateFlows" /\ numPeriods < 2)
      => (ret'.raised \in InvalidArgument
          /\ FlowState(self') = FlowState(self)) ]_vars

(***************************************************************************)
(* C5: on a schedule of exactly one date generateFlows completes without   *)
(* error for REPAYMENT and for INTEREST_ONLY and leaves only the seed row. *)
(***************************************************************************)
C5_SingleDateSeedRow ==
  ( /\ call.op = "generateFlows"
    /\ call.mortgageType \in FinBondMortgageType
    /\ numPeriods = 1 )
  => ret.raised = "none" /\ SeedRows(self)

(***************************************************************************)
(* C6: in the output of generateFlows(zeroRate, REPAYMENT) every           *)
(* totalFlow[i] equals interestFlow[i] + principalFlow[i] exactly, and     *)
(* from i = 1 on totalFlow[i] is the same level payment.                   *)
(***************************************************************************)
C6_TotalIsExactSum ==
  (Generated /\ call.mortgageType = REPAYMENT)
  => \A i \in 1..Len(self.totalFlows) :
       /\ FEq(self.totalFlows[i],
              FAdd(self.interestFlows[i], self.principalFlows[i]))
       /\ i >= 2 => self.totalFlows[i] = self.totalFlows[2]

\* C6 as amended: the seed row is all zeros, from i = 1 on totalFlow[i] is
\* the level payment repaymentAmount returns and principalFlow[i] is the
\* float difference totalFlow[i] - interestFlow[i], so that
\* interestFlow[i] + principalFlow[i] differs from totalFlow[i] by at most
\* one part in 2^51 of the larger of |interestFlow[i]| and |totalFlow[i]|,
\* and is not always equal to it.
C6_TotalIsRoundedSum ==
  (Generated /\ call.mortgageType = REPAYMENT)
  => /\ Len(self.totalFlows) = numPeriods
     /\ FIsZero(self.totalFlows[1])
     /\ FIsZero(self.interestFlows[1])
     /\ FIsZero(self.principalFlows[1])
     /\ \A i \in 2..Len(self.totalFlows) :
          /\ <<self.totalFlows[i]>> = repaymentAmount(self, call.zeroRate).value
          /\ self.principalFlows[i]
               = FSub(self.totalFlows[i], self.interestFlows[i])
          /\ \/ WithinBits(FAdd(self.interestFlows[i], self.principalFlows[i]),
                           self.totalFlows[i], self.totalFlows[i], 51)
             \/ WithinBits(FAdd(self.interestFlows[i], self.principalFlows[i]),
                           self.totalFlows[i], self.interestFlows[i], 51)

\* A REPAYMENT table at a negative rate in which some
\* interestFlow[i] + principalFlow[i] is further from totalFlow[i] than one
\* part in 2^50 of totalFlow[i]: the interest dwarfs the payment
C6_Witness ==
  /\ Generated
  /\ call.mortgageType = REPAYMENT
  /\ \E i \in 2..Len(self.totalFlows) :
       ~WithinBits(FAdd(self.interestFlows[i], self.principalFlows[i]),
                   self.totalFlows[i], self.totalFlows[i], 50)

(***************************************************************************)
(* C7: a non-positive principal is rejected, so that generateFlows called  *)
(* on a loan with principal <= 0 fails with a validation error.            *)
(***************************************************************************)
C7_PrincipalPositive ==
  /\ self.principal > 0
  /\ (call.op = "generateFlows" /\ self.principal <= 0)
     => ret.raised \in InvalidArgument

(***************************************************************************)
(* C8: generateFlows and repaymentAmount never change the construction     *)
(* time fields or the schedule, repaymentAmount changes nothing at all,    *)
(* and after a successful generateFlows the flow sequences are those the   *)
(* same call produces on a newly built loan, whatever was called before.   *)
(***************************************************************************)
C8_FreshFlows ==
  /\ [][ /\ LoanState(self') = LoanState(self)
         /\ call'.op = "repaymentAmount" => self' = self ]_vars
  /\ [](Generated =>
          FlowState(self)
            = FlowState(generateFlows(
                          FinBondMortgage(self.startDate, self.endDate,
                                          self.principal, self.frequencyType),
                          call.zeroRate, call.mortgageType).self))

\* A table of several periods has been generated
C8_Witness ==
  /\ Generated
  /\ numPeriods >= 3
  /\ Len(self.totalFlows) = numPeriods
  /\ ~FIsZero(self.principalFlows[numPeriods])

(***************************************************************************)
(* C9: for generateFlows(zeroRate, INTEREST_ONLY) with zeroRate > 0,       *)
(* principal > 0 and numPeriods >= 2, principalFlow[i] = payment -         *)
(* interestFlow[i] is non-zero for i >= 1 and principalRemaining does not  *)
(* stay equal to the original principal.                                   *)
(***************************************************************************)
C9_Case ==
  /\ Generated
  /\ call.mortgageType = INTEREST_ONLY
  /\ Positive(call.zeroRate)
  /\ self.principal > 0
  /\ numPeriods >= 2

C9_PrincipalDecrements ==
  C9_Case
  => /\ \A i \in 2..numPeriods :
          /\ self.principalFlows[i]
               = FSub(self.totalFlows[i], self.interestFlows[i])
          /\ ~FIsZero(self.principalFlows[i])
     /\ ~FEq(self.principalRemaining[numPeriods], FromInt(self.principal))

\* C9 as amended: principalFlow[i] = payment - interestFlow[i] is exactly
\* zero for every i >= 1, because interestFlow[i] equals the payment
\* zeroRate * principal / frequency, and principalRemaining stays equal to
\* the original principal.
C9_PrincipalStaysFlat ==
  C9_Case
  => /\ Len(self.principalFlows) = numPeriods
     /\ \A i \in 2..numPeriods :
          /\ self.principalFlows[i]
               = FSub(self.totalFlows[i], self.interestFlows[i])
          /\ self.interestFlows[i] = self.totalFlows[i]
          /\ ~FIsZero(self.interestFlows[i])
          /\ FIsZero(self.principalFlows[i])
          /\ FEq(self.principalRemaining[i], FromInt(self.principal))

C9_Witness == C9_Case /\ numPeriods >= 3

(***************************************************************************)
(* C10: after a successful generateFlows the four sequences have length    *)
(* numPeriods, index 0 is the seed row (zero flows, principalRemaining[0]  *)
(* = principal), and for i in 1..numPeriods-1 interestFlow[i] =            *)
(* principalRemaining[i-1] * zeroRate / frequency and                      *)
(* principalRemaining[i] = principalRemaining[i-1] - principalFlow[i].     *)
(***************************************************************************)
C10_TableShape ==
  Generated
  => /\ Len(self.interestFlows) = numPeriods
     /\ Len(self.principalFlows) = numPeriods
     /\ Len(self.principalRemaining) = numPeriods
     /\ Len(self.totalFlows) = numPeriods
     /\ FIsZero(self.interestFlows[1])
     /\ FIsZero(self.principalFlows[1])
     /\ FIsZero(self.totalFlows[1])
     /\ self.principalRemaining[1] = FromInt(self.principal)
     /\ \A i \in 2..numPeriods :
          /\ self.interestFlows[i]
               = FDiv(FMul(self.principalRemaining[i - 1], call.zeroRate),
                      FromInt(FinFrequency(self.frequencyType)))
          /\ self.principalRemaining[i]
               = FSub(self.principalRemaining[i - 1], self.principalFlows[i])

\* A REPAYMENT table of several periods whose principal moves
C10_Witness ==
  /\ Generated
  /\ call.mortgageType = REPAYMENT
  /\ numPeriods >= 3
  /\ ~FIsZero(self.principalFlows[numPeriods])
  /\ self.principalRemaining[numPeriods] # self.principalRemaining[2]

====
